---- MODULE Spec2Model ----
(***************************************************************************)
(* Model of hips/tiles/surveys.py: HipsSurveyProperties (one key=value     *)
(* property block and its typed accessors) and HipsSurveyPropertiesList    *)
(* (a catalog of blocks and its table view).                               *)
(*                                                                         *)
(* A Python str is modelled as a sequence of one-character strings, an     *)
(* OrderedDict as a sequence of <<key, value>> pairs in insertion order,   *)
(* a raised exception as the status field of the call's result.            *)
(***************************************************************************)
EXTENDS Integers, Sequences, FiniteSets, TLC

VARIABLES text, constructed, data, catalog, result

vars == <<text, constructed, data, catalog, result>>

(***************************************************************************)
(* Bounds of the model.                                                    *)
(***************************************************************************)
\* largest number of lines (joined by "\n") of an input text
MaxLines == 3
\* tile indices are drawn from the buckets 0..MaxBucket
MaxBucket == 2

(***************************************************************************)
(* Python str primitives.                                                  *)
(***************************************************************************)
\* the characters str.strip() removes (ASCII whitespace)
Whitespace == {" ", "\t", "\n", "\r", "\f"}

\* the characters of the model in code point order, for str comparison
Chars == <<"\t", "\n", "\f", "\r", " ", "\"", "#", "+", ",", "-", ".", "/",
           "0", "1", "2", "3", "4", "5", "6", "7", "8", "9", ":", "=", "D",
           "M", "N", "S", "_", "a", "b", "c", "d", "e", "f", "g", "h", "i",
           "j", "k", "l", "m", "n", "o", "p", "q", "r", "s", "t", "u", "v",
           "w", "x", "y", "z">>

Ord(c) == CHOOSE i \in 1..Len(Chars) : Chars[i] = c

\* a < b for two str (lexicographic on code points)
RECURSIVE str_lt(_, _)
str_lt(a, b) ==
    IF b = <<>> THEN FALSE
    ELSE IF a = <<>> THEN TRUE
    ELSE IF Head(a) = Head(b) THEN str_lt(Tail(a), Tail(b))
    ELSE Ord(Head(a)) < Ord(Head(b))

startswith(s, prefix) ==
    /\ Len(s) >= Len(prefix)
    /\ SubSeq(s, 1, Len(prefix)) = prefix

\* s.find(sep): index of the leftmost occurrence of sep in s, 0 when none
RECURSIVE str_find_from(_, _, _)
str_find_from(s, sep, i) ==
    IF i + Len(sep) - 1 > Len(s) THEN 0
    ELSE IF SubSeq(s, i, i + Len(sep) - 1) = sep THEN i
    ELSE str_find_from(s, sep, i + 1)

str_find(s, sep) == str_find_from(s, sep, 1)

\* s.rfind(sep): index of the rightmost occurrence of sep in s, 0 when none
RECURSIVE str_rfind_from(_, _, _)
str_rfind_from(s, sep, i) ==
    IF i < 1 THEN 0
    ELSE IF SubSeq(s, i, i + Len(sep) - 1) = sep THEN i
    ELSE str_rfind_from(s, sep, i - 1)

str_rfind(s, sep) == str_rfind_from(s, sep, Len(s) - Len(sep) + 1)

\* s.split(sep): the pieces between the non-overlapping occurrences of sep,
\* found left to right; always at least one piece
RECURSIVE str_split(_, _)
str_split(s, sep) ==
    LET i == str_find(s, sep)
    IN  IF i = 0 THEN <<s>>
        ELSE <<SubSeq(s, 1, i - 1)>>
                 \o str_split(SubSeq(s, i + Len(sep), Len(s)), sep)

\* s.rsplit(sep, 1): split once, at the rightmost occurrence of sep
str_rsplit1(s, sep) ==
    LET i == str_rfind(s, sep)
    IN  IF i = 0 THEN <<s>>
        ELSE <<SubSeq(s, 1, i - 1), SubSeq(s, i + Len(sep), Len(s))>>

\* s.strip()
str_strip(s) ==
    LET keep == {i \in 1..Len(s) : s[i] \notin Whitespace}
    IN  IF keep = {} THEN <<>>
        ELSE SubSeq(s, CHOOSE i \in keep : \A j \in keep : i <= j,
                       CHOOSE i \in keep : \A j \in keep : i >= j)

\* sep.join(parts)
RECURSIVE str_join(_, _)
str_join(parts, sep) ==
    IF parts = <<>> THEN <<>>
    ELSE IF Len(parts) = 1 THEN parts[1]
    ELSE parts[1] \o sep \o str_join(Tail(parts), sep)

(***************************************************************************)
(* OrderedDict primitives.                                                 *)
(***************************************************************************)
dict_keys(d) == {d[i][1] : i \in 1..Len(d)}

\* d[key] for a key that is present
dict_get(d, key) == LET i == CHOOSE i \in 1..Len(d) : d[i][1] = key IN d[i][2]

\* variant of dict_setitem: a present key is deleted and set again at the end
dict_setitem_moving(d, key, value) ==
    Append(SelectSeq(d, LAMBDA e : e[1] # key), <<key, value>>)

\* d[key] = value: a present key keeps its position, a new key is appended
dict_setitem(d, key, value) ==
    IF key \in dict_keys(d)
    THEN [i \in 1..Len(d) |-> IF d[i][1] = key THEN <<key, value>> ELSE d[i]]
    ELSE Append(d, <<key, value>>)

(***************************************************************************)
(* HipsSurveyProperties.parse                                              *)
(***************************************************************************)
\* variant of skip_line: only the empty line is skipped
skip_line_empty_only(line) == line = <<>>

\* line == '' or line.startswith('#')
skip_line(line) == line = <<>> \/ startswith(line, <<"#">>)

\* [_.strip() for _ in line.split('=')]
line_parts(line) ==
    LET pieces == str_split(line, <<"=">>)
    IN  [i \in 1..Len(pieces) |-> str_strip(pieces[i])]

\* variant of unpack_ok: the two parts must also be non-empty
unpack_ok_nonempty(parts) ==
    Len(parts) = 2 /\ parts[1] # <<>> /\ parts[2] # <<>>

\* key, value = parts succeeds (no ValueError) iff there are exactly two parts
unpack_ok(parts) == Len(parts) = 2

\* one iteration of the loop over the lines
parse_line(d, line) ==
    IF skip_line(line) THEN d
    ELSE LET parts == line_parts(line)
         IN  IF unpack_ok(parts) THEN dict_setitem(d, parts[1], parts[2])
             ELSE d

RECURSIVE parse_lines(_, _)
parse_lines(d, lines) ==
    IF lines = <<>> THEN d
    ELSE parse_lines(parse_line(d, Head(lines)), Tail(lines))

Properties_parse(t) == parse_lines(<<>>, str_split(t, <<"\n">>))

(***************************************************************************)
(* HipsSurveyPropertiesList.parse                                          *)
(***************************************************************************)
\* variant of PropertiesList_parse: a block without entries gives no record
PropertiesList_parse_dropping(t) ==
    LET blocks == str_split(t, <<"\n", "\n">>)
    IN  SelectSeq([i \in 1..Len(blocks) |-> Properties_parse(blocks[i])],
                  LAMBDA d : d # <<>>)

PropertiesList_parse(t) ==
    LET blocks == str_split(t, <<"\n", "\n">>)
    IN  [i \in 1..Len(blocks) |-> Properties_parse(blocks[i])]

(***************************************************************************)
(* The property keys the accessors read.                                   *)
(***************************************************************************)
key_obs_title ==
    <<"o", "b", "s", "_", "t", "i", "t", "l", "e">>

key_hips_version ==
    <<"h", "i", "p", "s", "_", "v", "e", "r", "s", "i", "o", "n">>

key_hips_frame ==
    <<"h", "i", "p", "s", "_", "f", "r", "a", "m", "e">>

key_hips_order ==
    <<"h", "i", "p", "s", "_", "o", "r", "d", "e", "r">>

key_hips_tile_format ==
    <<"h", "i", "p", "s", "_", "t", "i", "l", "e", "_", "f", "o", "r", "m", "a", "t">>

key_moc_access_url ==
    <<"m", "o", "c", "_", "a", "c", "c", "e", "s", "s", "_", "u", "r", "l">>

key_hips_tile_width ==
    <<"h", "i", "p", "s", "_", "t", "i", "l", "e", "_", "w", "i", "d", "t", "h">>

key_hips_service_url ==
    <<"h", "i", "p", "s", "_", "s", "e", "r", "v", "i", "c", "e", "_", "u", "r", "l">>

(***************************************************************************)
(* Outcome of a call: a returned value, or the exception it raised.        *)
(***************************************************************************)
Ok(v) == [status |-> "ok", value |-> v]
Raise(kind, what) == [status |-> kind, value |-> what]

\* variant of data_getitem: an absent key gives '' (as self.data.get(key, ''))
data_getitem_default(d, key) ==
    IF key \in dict_keys(d) THEN Ok(dict_get(d, key)) ELSE Ok(<<>>)

\* self.data[key]: KeyError(key) when the key is absent
data_getitem(d, key) ==
    IF key \in dict_keys(d) THEN Ok(dict_get(d, key)) ELSE Raise("KeyError", key)

(***************************************************************************)
(* int(str) and str(int)                                                   *)
(***************************************************************************)
Digits == <<"0", "1", "2", "3", "4", "5", "6", "7", "8", "9">>

DigitSet == {Digits[i] : i \in 1..10}

digit_value(c) == (CHOOSE i \in 1..10 : Digits[i] = c) - 1

\* the digits of an int literal, which may carry single underscores between them
digits_ok(s) ==
    /\ s # <<>>
    /\ \A i \in 1..Len(s) : s[i] \in DigitSet \cup {"_"}
    /\ s[1] # "_" /\ s[Len(s)] # "_"
    /\ \A i \in 1..(Len(s) - 1) : ~(s[i] = "_" /\ s[i + 1] = "_")

RECURSIVE digits_value(_, _)
digits_value(s, acc) ==
    IF s = <<>> THEN acc
    ELSE IF Head(s) = "_" THEN digits_value(Tail(s), acc)
    ELSE digits_value(Tail(s), 10 * acc + digit_value(Head(s)))

\* int(s): surrounding whitespace and one sign are accepted, else ValueError
int_of_str(s) ==
    LET t == str_strip(s)
        signed == t # <<>> /\ t[1] \in {"+", "-"}
        body == IF signed THEN Tail(t) ELSE t
    IN  IF ~digits_ok(body) THEN Raise("ValueError", s)
        ELSE IF signed /\ t[1] = "-" THEN Ok(0 - digits_value(body, 0))
        ELSE Ok(digits_value(body, 0))

RECURSIVE nat_str(_)
nat_str(n) ==
    IF n < 10 THEN <<Digits[n + 1]>>
    ELSE nat_str(n \div 10) \o <<Digits[(n % 10) + 1]>>

\* str(n)
str_of_int(n) == IF n < 0 THEN <<"-">> \o nat_str(0 - n) ELSE nat_str(n)

(***************************************************************************)
(* HipsSurveyProperties: typed accessors                                   *)
(***************************************************************************)
\* hips_to_astropy_frame_mapping
hips_to_astropy_frame_mapping ==
    << <<<<"e", "q", "u", "a", "t", "o", "r", "i", "a", "l">>,
         <<"i", "c", "r", "s">>>>,
       <<<<"g", "a", "l", "a", "c", "t", "i", "c">>,
         <<"g", "a", "l", "a", "c", "t", "i", "c">>>>,
       <<<<"e", "c", "l", "i", "p", "t", "i", "c">>,
         <<"e", "c", "l", "i", "p", "t", "i", "c">>>> >>

title(d) == data_getitem(d, key_obs_title)

hips_version(d) == data_getitem(d, key_hips_version)

hips_frame(d) == data_getitem(d, key_hips_frame)

\* variant of astropy_frame: a frame outside the mapping is returned as it is
astropy_frame_passthrough(d) ==
    LET frame == data_getitem(d, key_hips_frame)
    IN  IF frame.status # "ok" THEN frame
        ELSE IF frame.value \in dict_keys(hips_to_astropy_frame_mapping)
        THEN data_getitem(hips_to_astropy_frame_mapping, frame.value)
        ELSE frame

\* self.hips_to_astropy_frame_mapping[self.hips_frame]
astropy_frame(d) ==
    LET frame == hips_frame(d)
    IN  IF frame.status # "ok" THEN frame
        ELSE data_getitem(hips_to_astropy_frame_mapping, frame.value)

\* int(self.data['hips_order'])
hips_order(d) ==
    LET raw == data_getitem(d, key_hips_order)
    IN  IF raw.status # "ok" THEN raw ELSE int_of_str(raw.value)

tile_format(d) == data_getitem(d, key_hips_tile_format)

\* variant of base_url: the value is cut at its first '/' (split, not rsplit)
base_url_first_slash(d) ==
    LET raw == data_getitem(d, key_moc_access_url)
    IN  IF raw.status # "ok" THEN raw
        ELSE Ok(str_split(raw.value, <<"/">>)[1])

\* self.data['moc_access_url'].rsplit('/', 1)[0]
base_url(d) ==
    LET raw == data_getitem(d, key_moc_access_url)
    IN  IF raw.status # "ok" THEN raw
        ELSE Ok(str_rsplit1(raw.value, <<"/">>)[1])

\* int(self.data['hips_tile_width']) or 512
tile_width(d) ==
    LET raw == data_getitem(d, key_hips_tile_width)
        width == int_of_str(raw.value)
    IN  IF raw.status # "ok" THEN raw
        ELSE IF width.status # "ok" THEN width
        ELSE IF width.value = 0 THEN Ok(512)
        ELSE width

hips_service_url(d) == data_getitem(d, key_hips_service_url)

\* variant of directory: rounds to the nearest bucket bound
directory_rounding(ipix) == ((ipix + 5000) \div 10000) * 10000

\* (ipix // 10000) * 10000
directory(ipix) == (ipix \div 10000) * 10000

\* self.base_url + '/Norder' + str(order) + '/Dir' + str(self.directory(ipix)) + '/'
tile_access_url(d, order, ipix) ==
    LET base == base_url(d)
    IN  IF base.status # "ok" THEN base
        ELSE Ok(base.value \o <<"/", "N", "o", "r", "d", "e", "r">> \o str_of_int(order)
                    \o <<"/", "D", "i", "r">> \o str_of_int(directory(ipix))
                    \o <<"/">>)

(***************************************************************************)
(* HipsSurveyPropertiesList.table: the records are written as CSV text by  *)
(* csv.DictWriter and the text is read back by Table.read.                 *)
(***************************************************************************)
\* {key for row in rows for key in row}
all_keys(rows) == UNION {dict_keys(rows[i]) : i \in 1..Len(rows)}

\* sorted(keys)
RECURSIVE sorted(_)
sorted(keys) ==
    IF keys = {} THEN <<>>
    ELSE LET least == CHOOSE k \in keys : \A other \in keys \ {k} : str_lt(k, other)
         IN  <<least>> \o sorted(keys \ {least})

\* DictWriter._dict_to_list: rowdict.get(key, restval) with restval ''
dict_to_list(fieldnames, row) ==
    [i \in 1..Len(fieldnames) |->
        IF fieldnames[i] \in dict_keys(row) THEN dict_get(row, fieldnames[i])
        ELSE <<>>]

\* the characters that make csv.writer quote a field (QUOTE_MINIMAL, excel)
CsvSpecial == {",", "\"", "\r", "\n"}

RECURSIVE csv_double_quotes(_)
csv_double_quotes(f) ==
    IF f = <<>> THEN <<>>
    ELSE IF Head(f) = "\"" THEN <<"\"", "\"">> \o csv_double_quotes(Tail(f))
    ELSE <<Head(f)>> \o csv_double_quotes(Tail(f))

csv_field(f) ==
    IF \E i \in 1..Len(f) : f[i] \in CsvSpecial
    THEN <<"\"">> \o csv_double_quotes(f) \o <<"\"">>
    ELSE f

\* csv.writer.writerow: a lone empty field is written as "" (quoted)
csv_writerow(fields) ==
    (IF fields = << <<>> >> THEN <<"\"", "\"">>
     ELSE str_join([i \in 1..Len(fields) |-> csv_field(fields[i])], <<",">>))
        \o <<"\r", "\n">>

RECURSIVE csv_writerows(_, _)
csv_writerows(fieldnames, rows) ==
    IF rows = <<>> THEN <<>>
    ELSE csv_writerow(dict_to_list(fieldnames, Head(rows)))
             \o csv_writerows(fieldnames, Tail(rows))

\* buffer.getvalue() after writer.writeheader() and writer.writerows(rows)
csv_text(fieldnames, rows) ==
    csv_writerow(fieldnames) \o csv_writerows(fieldnames, rows)

\* the fields of one CSV line (delimiter ',', quotechar '"', doubled quotes)
RECURSIVE csv_fields(_, _, _)
csv_fields(s, field, quoted) ==
    IF s = <<>> THEN <<field>>
    ELSE IF quoted
    THEN IF Head(s) = "\""
         THEN IF Len(s) >= 2 /\ s[2] = "\""
              THEN csv_fields(Tail(Tail(s)), Append(field, "\""), TRUE)
              ELSE csv_fields(Tail(s), field, FALSE)
         ELSE csv_fields(Tail(s), Append(field, Head(s)), TRUE)
    ELSE IF Head(s) = "," THEN <<field>> \o csv_fields(Tail(s), <<>>, FALSE)
    ELSE IF Head(s) = "\"" THEN csv_fields(Tail(s), field, TRUE)
    ELSE csv_fields(Tail(s), Append(field, Head(s)), FALSE)

\* the lines Table.read keeps: the text is split at line ends and the lines
\* that are blank after strip() are dropped
table_lines(t) ==
    LET lines == str_split(t, <<"\r", "\n">>)
    IN  SelectSeq(lines, LAMBDA line : str_strip(line) # <<>>)

\* a cell of the table: a masked (missing) value, an int or a str
Masked == [kind |-> "masked", value |-> <<>>]
IntCell(n) == [kind |-> "int", value |-> n]
StrCell(s) == [kind |-> "str", value |-> s]

\* the fields of each of the lines
RECURSIVE csv_rows(_)
csv_rows(lines) ==
    IF lines = <<>> THEN <<>>
    ELSE <<csv_fields(Head(lines), <<>>, FALSE)>> \o csv_rows(Tail(lines))

\* the cell of a row in column c: a short row is padded with empty cells
raw_cell(row, c) == IF c <= Len(row) THEN row[c] ELSE <<>>

\* a column whose filled cells are all integer literals becomes an int column
column_is_int(body, c) ==
    /\ \E r \in 1..Len(body) : raw_cell(body[r], c) # <<>>
    /\ \A r \in 1..Len(body) :
          raw_cell(body[r], c) # <<>>
              => int_of_str(raw_cell(body[r], c)).status = "ok"

\* an empty cell is a masked (missing) value
typed_cell(body, r, c) ==
    IF raw_cell(body[r], c) = <<>> THEN Masked
    ELSE IF column_is_int(body, c)
    THEN IntCell(int_of_str(raw_cell(body[r], c)).value)
    ELSE StrCell(raw_cell(body[r], c))

\* the table of a header row and the rows below it; a row longer than the
\* header is an error
table_of_rows(names, body) ==
    IF \E r \in 1..Len(body) : Len(body[r]) > Len(names)
    THEN Raise("InconsistentTableError", <<>>)
    ELSE Ok([colnames |-> names,
             rows |-> [r \in 1..Len(body) |->
                        [c \in 1..Len(names) |-> typed_cell(body, r, c)]]])

\* the table of the kept lines: the first is the header, every further one
\* a row; without a header line there is no table
table_of_lines(rows) ==
    IF rows = <<>> THEN Raise("InconsistentTableError", <<>>)
    ELSE table_of_rows(Head(rows), Tail(rows))

\* Table.read(text, format='ascii.csv', guess=False)
table_read(t) == table_of_lines(csv_rows(table_lines(t)))

table(records) ==
    LET fieldnames == sorted(all_keys(records))
    IN  table_read(csv_text(fieldnames, records))

(***************************************************************************)
(* Inputs.                                                                 *)
(***************************************************************************)
\* lines of a property text: blank, comment, plain, padded, without
\* '=', with an empty side, with a second '=', with a value that CSV quotes
ParseLines ==
    { <<>>,
      <<" ">>,
      <<"#", "k", "=", "v">>,
      <<"k", "=", "v">>,
      <<" ", "k", " ", "=", " ", "w", " ">>,
      <<"j", " ", "=", " ", "a", ",", "b">>,
      <<"k">>,
      <<"k", "=">>,
      <<"=", "v">>,
      <<"=">>,
      <<"k", "=", "v", "=", "w">> }

\* lines that set the keys the accessors read
AccessLines ==
    { <<>>,
      <<"o", "b", "s", "_", "t", "i", "t", "l", "e", " ", "=", " ", "D", "S", "S">>,
      <<"h", "i", "p", "s", "_", "f", "r", "a", "m", "e", " ", "=", " ", "e", "q", "u", "a", "t", "o", "r", "i", "a", "l">>,
      <<"h", "i", "p", "s", "_", "f", "r", "a", "m", "e", " ", "=", " ", "g", "a", "l", "a", "c", "t", "i", "c">>,
      <<"h", "i", "p", "s", "_", "f", "r", "a", "m", "e", " ", "=", " ", "e", "c", "l", "i", "p", "t", "i", "c">>,
      <<"h", "i", "p", "s", "_", "f", "r", "a", "m", "e", " ", "=", " ", "i", "c", "r", "s">>,
      <<"h", "i", "p", "s", "_", "o", "r", "d", "e", "r", " ", "=", " ", "9">>,
      <<"h", "i", "p", "s", "_", "t", "i", "l", "e", "_", "w", "i", "d", "t", "h", " ", "=", " ", "0">>,
      <<"m", "o", "c", "_", "a", "c", "c", "e", "s", "s", "_", "u", "r", "l", " ", "=", " ", "h", "t", "t", "p", ":", "/", "/", "h", "o", "s", "t", "/", "D", "S", "S", "/", "M", "o", "c", ".", "f", "i", "t", "s">>,
      <<"m", "o", "c", "_", "a", "c", "c", "e", "s", "s", "_", "u", "r", "l", " ", "=", " ", "M", "o", "c", ".", "f", "i", "t", "s">> }

\* the texts of 1..n lines drawn from a set of lines
TextsOf(lines, n) ==
    {str_join(ls, <<"\n">>) : ls \in UNION {[1..m -> lines] : m \in 1..n}}

\* largest number of lines of a text whose accessors are called
MaxProps == 2

\* tile indices: the first index of each bucket, the last index of the
\* first bucket and an index inside a bucket
TileIndices == {b * 10000 : b \in 0..MaxBucket} \cup {9999, 23456}

\* HiPS orders
Orders == {9, 10}

(***************************************************************************)
(* State machine.  text is the text handed to parse; constructed tells     *)
(* which objects exist; data is the mapping of the HipsSurveyProperties    *)
(* object, catalog the list of mappings of the HipsSurveyPropertiesList    *)
(* object; result is the outcome of the last method call.                  *)
(***************************************************************************)
NoCall == [op |-> "none", self |-> 0, args |-> <<>>, out |-> Ok(<<>>)]

Call(op, self, args, out) == [op |-> op, self |-> self, args |-> args, out |-> out]

InitWith(texts) ==
    /\ text \in texts
    /\ constructed = {}
    /\ data = <<>>
    /\ catalog = <<>>
    /\ result = NoCall

Init == InitWith(TextsOf(ParseLines, MaxLines))

InitAccess == InitWith(TextsOf(AccessLines, MaxProps))

\* HipsSurveyProperties.parse(text)
ParseRecord ==
    /\ "record" \notin constructed
    /\ data' = Properties_parse(text)
    /\ constructed' = constructed \cup {"record"}
    /\ UNCHANGED <<text, catalog, result>>

\* HipsSurveyPropertiesList.parse(text)
ParseCatalog ==
    /\ "catalog" \notin constructed
    /\ catalog' = PropertiesList_parse(text)
    /\ constructed' = constructed \cup {"catalog"}
    /\ UNCHANGED <<text, data, result>>

\* HipsSurveyPropertiesList.table
CallTable ==
    /\ "catalog" \in constructed
    /\ result' = Call("table", 0, <<>>, table(catalog))
    /\ UNCHANGED <<text, constructed, data, catalog>>

\* a method of the i-th HipsSurveyProperties of the catalog returns out
Method(op, i, args, out) ==
    /\ result' = Call(op, i, args, out)
    /\ UNCHANGED <<text, constructed, data, catalog>>

Records == IF "catalog" \in constructed THEN 1..Len(catalog) ELSE {}

CallTitle == \E i \in Records : Method("title", i, <<>>, title(catalog[i]))

CallHipsVersion ==
    \E i \in Records : Method("hips_version", i, <<>>, hips_version(catalog[i]))

CallHipsFrame ==
    \E i \in Records : Method("hips_frame", i, <<>>, hips_frame(catalog[i]))

CallAstropyFrame ==
    \E i \in Records : Method("astropy_frame", i, <<>>, astropy_frame(catalog[i]))

CallHipsOrder ==
    \E i \in Records : Method("hips_order", i, <<>>, hips_order(catalog[i]))

CallTileFormat ==
    \E i \in Records : Method("tile_format", i, <<>>, tile_format(catalog[i]))

CallBaseUrl == \E i \in Records : Method("base_url", i, <<>>, base_url(catalog[i]))

CallTileWidth ==
    \E i \in Records : Method("tile_width", i, <<>>, tile_width(catalog[i]))

CallHipsServiceUrl ==
    \E i \in Records :
        Method("hips_service_url", i, <<>>, hips_service_url(catalog[i]))

CallDirectory ==
    \E i \in Records, ipix \in TileIndices :
        Method("directory", i, <<ipix>>, Ok(directory(ipix)))

CallTileAccessUrl ==
    \E i \in Records, order \in Orders, ipix \in TileIndices :
        Method("tile_access_url", i, <<order, ipix>>,
               tile_access_url(catalog[i], order, ipix))

Next == ParseRecord \/ ParseCatalog \/ CallTable

Spec == Init /\ [][Next]_vars

NextAccess ==
    \/ ParseCatalog
    \/ CallTitle
    \/ CallHipsVersion
    \/ CallHipsFrame
    \/ CallAstropyFrame
    \/ CallHipsOrder
    \/ CallTileFormat
    \/ CallBaseUrl
    \/ CallTileWidth
    \/ CallHipsServiceUrl
    \/ CallDirectory
    \/ CallTileAccessUrl
    \/ CallTable

SpecAccess == InitAccess /\ [][NextAccess]_vars

(***************************************************************************)
(* Vocabulary of the properties: the lines of the text and the two sides   *)
(* of a line around its first '='.                                         *)
(***************************************************************************)
TextLines == str_split(text, <<"\n">>)

EqCount(line) == Cardinality({i \in 1..Len(line) : line[i] = "="})

FirstEq(line) ==
    CHOOSE i \in 1..Len(line) :
        line[i] = "=" /\ \A j \in 1..(i - 1) : line[j] # "="

KeyPart(line) == str_strip(SubSeq(line, 1, FirstEq(line) - 1))

ValuePart(line) == str_strip(SubSeq(line, FirstEq(line) + 1, Len(line)))

IsComment(line) == line # <<>> /\ line[1] = "#"

IsBlank(line) == \A i \in 1..Len(line) : line[i] \in Whitespace

\* what a line says: the number of its '=' (0 for a comment), its key and
\* its value around the first '='
Reading(line) ==
    IF IsComment(line) \/ EqCount(line) = 0
    THEN [eqs |-> 0, key |-> <<>>, value |-> <<>>]
    ELSE [eqs |-> EqCount(line), key |-> KeyPart(line), value |-> ValuePart(line)]

Readings == [i \in 1..Len(TextLines) |-> Reading(TextLines[i])]

\* the lines that hold a property: not a comment, with at least one '='
PropertyLines(rd) == {i \in 1..Len(rd) : rd[i].eqs >= 1}

\* the lines parse takes an entry from: not a comment, with exactly one '='
TakenLines(rd) == {i \in 1..Len(rd) : rd[i].eqs = 1}

\* the mapping holds key with value
Holds(d, key, value) == \E e \in 1..Len(d) : d[e] = <<key, value>>

\* line i of the given lines is kept: its key is in the mapping, with its
\* value unless a later one of the lines has the same key
Kept(d, rd, lines, i) ==
    /\ rd[i].key \in dict_keys(d)
    /\ (\A j \in lines : j > i => rd[j].key # rd[i].key)
          => Holds(d, rd[i].key, rd[i].value)

(***************************************************************************)
(* C1: parse splits a line on its first '=' only: a line that is no        *)
(* comment and has further '=' in its value is kept, its key maps to the   *)
(* whole trimmed rest of the line (unless a later line sets the key again).*)
(***************************************************************************)
SplitOnFirstEquals(d, rd) ==
    \A i \in PropertyLines(rd) :
        rd[i].eqs >= 2 => Kept(d, rd, PropertyLines(rd), i)

C1_SplitOnFirstEquals ==
    "record" \in constructed => SplitOnFirstEquals(data, Readings)

(***************************************************************************)
(* C2 as stated: no key and no value of a parsed record is the empty       *)
(* string, because lines with an empty side are dropped.                   *)
(***************************************************************************)
C2_NoEmptyKeyOrValue ==
    "record" \in constructed =>
        \A e \in 1..Len(data) : data[e][1] # <<>> /\ data[e][2] # <<>>

(***************************************************************************)
(* C2: a line that is no comment and has exactly one '=' is kept also when *)
(* its key or its value is empty after trimming: the key (possibly '') is  *)
(* in the mapping and, when no later kept line sets it again, maps to the  *)
(* trimmed value (possibly '').                                            *)
(***************************************************************************)
EmptySidesKept(d, rd) ==
    \A i \in TakenLines(rd) :
        (rd[i].key = <<>> \/ rd[i].value = <<>>)
            => Kept(d, rd, TakenLines(rd), i)

C2_EmptySidesKept ==
    "record" \in constructed => EmptySidesKept(data, Readings)

\* a record holds an empty value and an empty key taken from such lines
C2_Witness ==
    /\ "record" \in constructed
    /\ \E e \in 1..Len(data) : data[e][1] # <<>> /\ data[e][2] = <<>>
    /\ \E e \in 1..Len(data) : data[e][1] = <<>> /\ data[e][2] # <<>>

(***************************************************************************)
(* C7: the keys of a parsed mapping are unique, each key maps to the       *)
(* trimmed value of the last line parse takes an entry from for that key,  *)
(* and the keys stand in the order of their first such line.               *)
(***************************************************************************)
LinesOfKey(rd, key) == {i \in TakenLines(rd) : rd[i].key = key}

FirstLineOfKey(rd, key) ==
    CHOOSE i \in LinesOfKey(rd, key) : \A j \in LinesOfKey(rd, key) : i <= j

LastLineOfKey(rd, key) ==
    CHOOSE i \in LinesOfKey(rd, key) : \A j \in LinesOfKey(rd, key) : i >= j

LastValueFirstPosition(d, rd) ==
    /\ \A e, f \in 1..Len(d) : e # f => d[e][1] # d[f][1]
    /\ dict_keys(d) = {rd[i].key : i \in TakenLines(rd)}
    /\ \A e \in 1..Len(d) :
          /\ LinesOfKey(rd, d[e][1]) # {}
          /\ d[e][2] = rd[LastLineOfKey(rd, d[e][1])].value
    /\ \A e, f \in 1..Len(d) :
          e < f => FirstLineOfKey(rd, d[e][1]) < FirstLineOfKey(rd, d[f][1])

C7_LastValueFirstPosition ==
    "record" \in constructed => LastValueFirstPosition(data, Readings)

\* a key is set, another key is set, and the first key is set again to
\* another value
KeySetAgain(rd) ==
    \E i, j, l \in TakenLines(rd) :
        /\ i < j /\ j < l
        /\ rd[i].key = rd[l].key
        /\ rd[i].key # rd[j].key
        /\ rd[i].value # rd[l].value

C7_Witness ==
    /\ "record" \in constructed
    /\ Len(data) = 2
    /\ KeySetAgain(Readings)

(***************************************************************************)
(* C8: a line that is empty, blank, without '=' or starting with '#' adds  *)
(* no entry: every entry of the mapping is the key and value of one of the *)
(* other lines, and there are no more entries than other lines.            *)
(***************************************************************************)
OtherLines(lines) ==
    {i \in 1..Len(lines) :
        /\ ~IsBlank(lines[i])
        /\ ~IsComment(lines[i])
        /\ EqCount(lines[i]) >= 1}

SkippedLinesAddNothing(d, lines) ==
    /\ Len(d) <= Cardinality(OtherLines(lines))
    /\ \A e \in 1..Len(d) :
          \E i \in OtherLines(lines) :
              d[e] = <<KeyPart(lines[i]), ValuePart(lines[i])>>

C8_SkippedLinesAddNothing ==
    "record" \in constructed => SkippedLinesAddNothing(data, TextLines)

\* a text with a comment line that has a '=', a blank line and a kept line
C8_Witness ==
    /\ "record" \in constructed
    /\ \E i \in 1..Len(TextLines) :
          IsComment(TextLines[i]) /\ EqCount(TextLines[i]) >= 1
    /\ \E i \in 1..Len(TextLines) :
          TextLines[i] # <<>> /\ IsBlank(TextLines[i])
    /\ Len(data) = 1

(***************************************************************************)
(* C4: the catalog has one record per block of the text, N >= 1, in block  *)
(* order, the i-th record being the parse of the i-th block; the blocks    *)
(* are the pieces of the text between its "\n\n" separators taken from the *)
(* left: joined by "\n\n" they give the text, none contains "\n\n" and     *)
(* none but the last ends with "\n".                                       *)
(***************************************************************************)
BlankLine == <<"\n", "\n">>

Blocks == str_split(text, BlankLine)

C4_OneRecordPerBlock ==
    "catalog" \in constructed =>
        /\ Len(catalog) >= 1
        /\ Len(catalog) = Len(Blocks)
        /\ \A i \in 1..Len(Blocks) : catalog[i] = Properties_parse(Blocks[i])
        /\ str_join(Blocks, BlankLine) = text
        /\ \A i \in 1..Len(Blocks) : str_find(Blocks[i], BlankLine) = 0
        /\ \A i \in 1..(Len(Blocks) - 1) :
              Blocks[i] = <<>> \/ Blocks[i][Len(Blocks[i])] # "\n"
        /\ text = <<>> => catalog = << <<>> >>

\* a catalog with an empty record before a record that has entries
C4_Witness ==
    /\ "catalog" \in constructed
    /\ Len(catalog) = 2
    /\ catalog[1] = <<>>
    /\ catalog[2] # <<>>

(***************************************************************************)
(* C3: the table view never fails; its columns are the sorted union of the *)
(* keys of all records, it has one row per record in record order, and the *)
(* cell of a record in a column is the record's value for that key (as     *)
(* text or as the number it spells), empty when the record lacks the key.  *)
(***************************************************************************)
CellShows(cell, row, key) ==
    IF key \notin dict_keys(row) \/ dict_get(row, key) = <<>>
    THEN cell.kind = "masked"
    ELSE \/ cell.kind = "str" /\ cell.value = dict_get(row, key)
         \/ /\ cell.kind = "int"
            /\ int_of_str(dict_get(row, key)) = Ok(cell.value)

C3_TableOfUnion ==
    result.op = "table" =>
        /\ result.out.status = "ok"
        /\ LET names == result.out.value.colnames
               rows == result.out.value.rows
           IN  /\ {names[c] : c \in 1..Len(names)} = all_keys(catalog)
               /\ \A c \in 1..(Len(names) - 1) : str_lt(names[c], names[c + 1])
               /\ Len(rows) = Len(catalog)
               /\ \A r \in 1..Len(rows) :
                     /\ Len(rows[r]) = Len(names)
                     /\ \A c \in 1..Len(names) :
                           CellShows(rows[r][c], catalog[r], names[c])

(***************************************************************************)
(* Vocabulary of the accessor properties.                                  *)
(***************************************************************************)
\* the record a method was called on
Self == catalog[result.self]

\* the key an accessor reads
BackingKey ==
    [title |-> key_obs_title,
     hips_version |-> key_hips_version,
     hips_frame |-> key_hips_frame,
     hips_order |-> key_hips_order,
     tile_format |-> key_hips_tile_format,
     base_url |-> key_moc_access_url,
     tile_width |-> key_hips_tile_width,
     hips_service_url |-> key_hips_service_url]

Accessors == DOMAIN BackingKey

\* '/Norder' + decimal(order) + '/Dir' + decimal(directory(ipix)) + '/'
TilePath(order, ipix) ==
    <<"/", "N", "o", "r", "d", "e", "r">> \o str_of_int(order)
        \o <<"/", "D", "i", "r">> \o str_of_int(directory(ipix)) \o <<"/">>

HasSlash(s) == \E i \in 1..Len(s) : s[i] = "/"

\* url is base + path where base + '/' + segment = moc for a segment without '/'
DropsLastSegment(url, moc, path) ==
    \E n \in 0..Len(moc) :
        LET segment == SubSeq(moc, Len(moc) - n + 1, Len(moc))
            base == SubSeq(moc, 1, Len(moc) - n - 1)
        IN  /\ n < Len(moc)
            /\ moc[Len(moc) - n] = "/"
            /\ ~HasSlash(segment)
            /\ url = base \o path

(***************************************************************************)
(* C5 as stated: with moc_access_url present, tile_access_url is the       *)
(* moc_access_url without its final '/'-delimited segment and without the  *)
(* '/' before it, followed by '/Norder<order>/Dir<directory>/'.            *)
(***************************************************************************)
C5_LastSegmentRemoved ==
    (result.op = "tile_access_url" /\ key_moc_access_url \in dict_keys(Self)) =>
        /\ result.out.status = "ok"
        /\ DropsLastSegment(result.out.value,
                            dict_get(Self, key_moc_access_url),
                            TilePath(result.args[1], result.args[2]))

(***************************************************************************)
(* C5: with moc_access_url present, tile_access_url is a function of       *)
(* moc_access_url, order and ipix: baseUrl + '/Norder<order>/Dir<dir>/',   *)
(* where baseUrl is moc_access_url without its final '/'-delimited segment *)
(* and the '/' before it when moc_access_url has a '/', and moc_access_url *)
(* itself when it has none.                                                *)
(***************************************************************************)
C5_TileAccessUrl ==
    (result.op = "tile_access_url" /\ key_moc_access_url \in dict_keys(Self)) =>
        LET moc == dict_get(Self, key_moc_access_url)
            path == TilePath(result.args[1], result.args[2])
        IN  /\ result.out.status = "ok"
            /\ IF HasSlash(moc)
               THEN DropsLastSegment(result.out.value, moc, path)
               ELSE result.out.value = moc \o path

\* moc_access_url 'http://host/DSS/Moc.fits', order 9, tile 23456
C5_Witness ==
    /\ result.op = "tile_access_url"
    /\ result.args = <<9, 23456>>
    /\ Holds(Self, key_moc_access_url,
             <<"h", "t", "t", "p", ":", "/", "/", "h", "o", "s", "t", "/", "D", "S", "S", "/", "M", "o", "c", ".", "f", "i", "t", "s">>)
    /\ result.out = Ok(<<"h", "t", "t", "p", ":", "/", "/", "h", "o", "s", "t", "/", "D", "S", "S", "/", "N", "o", "r", "d", "e", "r", "9", "/", "D", "i", "r", "2", "0", "0", "0", "0", "/">>)

(***************************************************************************)
(* C6: for a tile index t >= 0, directory(t) is the lower bound of the     *)
(* bucket of 10000 indices that holds t: a multiple of 10000 with          *)
(* d <= t < d + 10000, and directory(d) = d.                               *)
(***************************************************************************)
C6_DirectoryBucket ==
    (result.op = "directory" /\ result.args[1] >= 0) =>
        LET t == result.args[1]
            d == result.out.value
        IN  /\ result.out.status = "ok"
            /\ d % 10000 = 0
            /\ d <= t /\ t < d + 10000
            /\ directory(d) = d
            /\ t = 23456 => d = 20000
            /\ t = 9999 => d = 0
            /\ t = 10000 => d = 10000

\* the last index of the first bucket
C6_Witness ==
    /\ result.op = "directory"
    /\ result.args = <<9999>>
    /\ result.out = Ok(0)

(***************************************************************************)
(* C9: an accessor called on a record that lacks its backing key fails     *)
(* with a KeyError for that key, and after any calls the records are still *)
(* the ones parse produced.                                                *)
(***************************************************************************)
C9_MissingKeyFails ==
    /\ "catalog" \in constructed => catalog = PropertiesList_parse(text)
    /\ result.op \in Accessors =>
          (BackingKey[result.op] \notin dict_keys(Self)
              => result.out = Raise("KeyError", BackingKey[result.op]))

\* tile_width was called on a record that has entries but no hips_tile_width
C9_Witness ==
    /\ result.op = "tile_width"
    /\ Self # <<>>
    /\ key_hips_tile_width \notin dict_keys(Self)
    /\ result.out.status = "KeyError"

(***************************************************************************)
(* C10 as stated: astropy_frame maps equatorial, galactic and ecliptic,    *)
(* and for any other present hips_frame fails with an error of another     *)
(* kind than the error of a missing key.                                   *)
(***************************************************************************)
KnownFrames ==
    {hips_to_astropy_frame_mapping[i][1] :
        i \in 1..Len(hips_to_astropy_frame_mapping)}

\* the kind of error an accessor raises for a missing key
MissingFieldKind == title(<<>>).status

C10_UnknownFrameOtherKind ==
    (result.op = "astropy_frame" /\ key_hips_frame \in dict_keys(Self)) =>
        IF dict_get(Self, key_hips_frame) \in KnownFrames
        THEN result.out.status = "ok"
        ELSE result.out.status \notin {"ok", MissingFieldKind}

(***************************************************************************)
(* C10: astropy_frame gives icrs for equatorial, galactic for galactic and *)
(* ecliptic for ecliptic; for any other present hips_frame it fails with a *)
(* KeyError, the kind of error of a missing key, carrying the frame value. *)
(***************************************************************************)
C10_FrameLookup ==
    (result.op = "astropy_frame" /\ key_hips_frame \in dict_keys(Self)) =>
        LET frame == dict_get(Self, key_hips_frame)
        IN  /\ frame = <<"e", "q", "u", "a", "t", "o", "r", "i", "a", "l">>
                  => result.out = Ok(<<"i", "c", "r", "s">>)
            /\ frame = <<"g", "a", "l", "a", "c", "t", "i", "c">>
                  => result.out = Ok(<<"g", "a", "l", "a", "c", "t", "i", "c">>)
            /\ frame = <<"e", "c", "l", "i", "p", "t", "i", "c">>
                  => result.out = Ok(<<"e", "c", "l", "i", "p", "t", "i", "c">>)
            /\ frame \notin KnownFrames
                  => /\ result.out = Raise("KeyError", frame)
                     /\ result.out.status = MissingFieldKind

\* astropy_frame failed on a record whose hips_frame is present
C10_Witness ==
    /\ result.op = "astropy_frame"
    /\ key_hips_frame \in dict_keys(Self)
    /\ result.out.status = "KeyError"

====
